---- MODULE Spec2Model ----
(***************************************************************************)
(* Comment handlers of skyportal (skyportal/handlers/api/comment.py):      *)
(* CommentHandler.get/post/put/delete and CommentAttachmentHandler.get,    *)
(* together with users_mentioned.  Every request runs in a worker with its *)
(* own database session; the committed store is the only shared state.     *)
(* A handler is cut at its commit and at each push, so that requests of    *)
(* two workers interleave at the points where the code touches the store   *)
(* or the push transport.                                                  *)
(***************************************************************************)
EXTENDS Integers, Sequences, FiniteSets, TLC

----------------------------------------------------------------------------
(* Python values.  An optional value (None, or a JSON key that is absent)  *)
(* is a sequence of length at most one.                                    *)

None == <<>>
Some(v) == <<v>>
Val(o) == o[1]

Range(s) == {s[i] : i \in 1..Len(s)}

\* The printable ASCII characters, in code order from 32 (space) to 126 (~).
\* "grave" stands for the grave accent (code 96), which a string of this
\* language cannot hold.
Ascii ==
  << " ", "!", "\"", "#", "$", "%", "&", "'", "(", ")", "*", "+", ",", "-", ".", "/",
     "0", "1", "2", "3", "4", "5", "6", "7", "8", "9", ":", ";", "<", "=", ">", "?",
     "@", "A", "B", "C", "D", "E", "F", "G", "H", "I", "J", "K", "L", "M", "N", "O",
     "P", "Q", "R", "S", "T", "U", "V", "W", "X", "Y", "Z", "[", "\\", "]", "^", "_",
     "grave", "a", "b", "c", "d", "e", "f", "g", "h", "i", "j", "k", "l", "m", "n", "o",
     "p", "q", "r", "s", "t", "u", "v", "w", "x", "y", "z", "{", "|", "}", "~" >>

\* ord(ch)
Ord(ch) == 31 + (CHOOSE i \in 1..Len(Ascii) : Ascii[i] = ch)

\* string.punctuation
StringPunctuation ==
  {Ascii[i] : i \in (2..16) \cup (27..33) \cup (60..65) \cup (92..95)}

\* what str.split() with no argument splits on
Whitespace == {" ", "\t", "\n", "\r", "\f"}

----------------------------------------------------------------------------
(* users_mentioned                                                         *)

\* text.replace(",", " ")
ReplaceCommas(text) ==
  [i \in 1..Len(text) |-> IF text[i] = "," THEN " " ELSE text[i]]

\* str.split(): the maximal runs of non-whitespace characters, in order
RECURSIVE SplitFrom(_, _, _)
SplitFrom(s, i, cur) ==
  IF i > Len(s)
    THEN IF cur = <<>> THEN <<>> ELSE <<cur>>
    ELSE IF s[i] \in Whitespace
           THEN (IF cur = <<>> THEN <<>> ELSE <<cur>>) \o SplitFrom(s, i + 1, <<>>)
           ELSE SplitFrom(s, i + 1, Append(cur, s[i]))

Split(s) == SplitFrom(s, 1, <<>>)

\* str.strip(chars): drop the leading and the trailing characters that are in chars
RECURSIVE LStrip(_, _)
LStrip(word, chars) ==
  IF word # <<>> /\ Head(word) \in chars THEN LStrip(Tail(word), chars) ELSE word

RECURSIVE RStrip(_, _)
RStrip(word, chars) ==
  IF word # <<>> /\ word[Len(word)] \in chars
    THEN RStrip(SubSeq(word, 1, Len(word) - 1), chars)
    ELSE word

Strip(word, chars) == RStrip(LStrip(word, chars), chars)

\* punctuation = string.punctuation.replace("-", "").replace("@", "")
MentionPunctuation == StringPunctuation \ {"-", "@"}

\* the list `usernames` that the loop of users_mentioned builds
MentionedUsernames(text) ==
  LET words == Split(ReplaceCommas(text))
      stripped == [i \in 1..Len(words) |-> Strip(words[i], MentionPunctuation)]
      ats == SelectSeq(stripped, LAMBDA word : word # <<>> /\ word[1] = "@")
  IN  [i \in 1..Len(ats) |-> SelectSeq(ats[i], LAMBDA ch : ch # "@")]

----------------------------------------------------------------------------
(* The user directory, the groups and the annotated objects.  They are     *)
(* owned by other parts of the application and do not change here.         *)

Users == {"u1", "u2"}

\* the order in which a query over the user table returns its rows
UserRows == <<"u1", "u2">>

Username == [u \in Users |-> IF u = "u1" THEN <<"a">> ELSE <<"b", "-", "c">>]

Groups == {"g1", "g2", "g3"}

\* User.accessible_groups
accessible_groups == [u \in Users |-> IF u = "u1" THEN {"g1", "g2"} ELSE {}]

Objs == {"o1", "o2"}

\* Obj.internal_key
internal_key == [o \in Objs |-> IF o = "o1" THEN "k1" ELSE "k2"]

\* User.query.filter(User.username.in_(usernames)).all(): every matching row once
QueryUsersByUsername(usernames) ==
  SelectSeq(UserRows, LAMBDA u : Username[u] \in Range(usernames))

\* users_mentioned without the test of line 21: every word is a candidate
users_mentioned_any_word(text) ==
  LET words == Split(ReplaceCommas(text))
      stripped == [i \in 1..Len(words) |-> Strip(words[i], MentionPunctuation)]
  IN  QueryUsersByUsername(
        [i \in 1..Len(stripped) |-> SelectSeq(stripped[i], LAMBDA ch : ch # "@")])

\* users_mentioned with every candidate resolved on its own, a row per occurrence
users_mentioned_per_token(text) ==
  LET names == MentionedUsernames(text)
      hits == SelectSeq(names, LAMBDA n : \E u \in Users : Username[u] = n)
  IN  [i \in 1..Len(hits) |-> CHOOSE u \in Users : Username[u] = hits[i]]

\* users_mentioned with only the leading at-sign of a word removed
users_mentioned_leading_at(text) ==
  LET words == Split(ReplaceCommas(text))
      stripped == [i \in 1..Len(words) |-> Strip(words[i], MentionPunctuation)]
      ats == SelectSeq(stripped, LAMBDA word : word # <<>> /\ word[1] = "@")
  IN  QueryUsersByUsername([i \in 1..Len(ats) |-> Tail(ats[i])])

users_mentioned(text) == QueryUsersByUsername(MentionedUsernames(text))

----------------------------------------------------------------------------
(* Attachments                                                             *)

Base64Marker == <<"b", "a", "s", "e", "6", "4", ",">>

Max(S) == CHOOSE x \in S : \A y \in S : y <= x

\* s.split(sep)[-1]: what follows the last occurrence of sep, all of s without one
AfterLast(s, sep) ==
  LET occ == {i \in 1..(Len(s) - Len(sep) + 1) : SubSeq(s, i, i + Len(sep) - 1) = sep}
  IN  IF occ = {} THEN s ELSE SubSeq(s, Max(occ) + Len(sep), Len(s))

\* str.encode(s): the bytes of an ASCII string
StrEncode(s) == [i \in 1..Len(s) |-> Ord(s[i])]

\* str.encode(body): the body as it is, header included
attachment_bytes_verbatim(body) == StrEncode(body)

\* str.encode(body.split('base64,')[-1])
attachment_bytes_of(body) == StrEncode(AfterLast(body, Base64Marker))

\* the value of a byte in the base64 alphabet, -1 outside of it
B64Value(b) ==
  IF b >= 65 /\ b <= 90 THEN b - 65
  ELSE IF b >= 97 /\ b <= 122 THEN b - 71
  ELSE IF b >= 48 /\ b <= 57 THEN b + 4
  ELSE IF b = 43 THEN 62
  ELSE IF b = 47 THEN 63
  ELSE -1

\* the first byte from position i on that is of the alphabet or the pad (61,
\* the equals sign), -1 without one
RECURSIVE B64NextValid(_, _)
B64NextValid(s, i) ==
  IF i > Len(s) THEN -1
  ELSE IF s[i] = 61 \/ B64Value(s[i]) # -1 THEN s[i]
  ELSE B64NextValid(s, i + 1)

\* binascii.a2b_base64, not strict: bytes outside the alphabet are skipped, six
\* bits are shifted in per character, a pad sequence in its place ends the
\* input; bits left over at the end are an error (incorrect padding)
RECURSIVE A2BBase64(_, _, _, _, _, _)
A2BBase64(s, i, quad_pos, leftchar, leftbits, out) ==
  IF i > Len(s) THEN [error |-> leftbits # 0, out |-> out]
  ELSE IF s[i] = 61
    THEN IF quad_pos < 2 \/ (quad_pos = 2 /\ B64NextValid(s, i + 1) # 61)
           THEN A2BBase64(s, i + 1, quad_pos, leftchar, leftbits, out)
           ELSE [error |-> FALSE, out |-> out]
  ELSE IF B64Value(s[i]) = -1
    THEN A2BBase64(s, i + 1, quad_pos, leftchar, leftbits, out)
  ELSE
    LET lc == leftchar * 64 + B64Value(s[i])
        lb == leftbits + 6
    IN  IF lb >= 8
          THEN A2BBase64(s, i + 1, (quad_pos + 1) % 4, lc % (2 ^ (lb - 8)), lb - 8,
                         Append(out, (lc \div (2 ^ (lb - 8))) % 256))
          ELSE A2BBase64(s, i + 1, (quad_pos + 1) % 4, lc, lb, out)

\* base64.b64decode(b): raises on None
b64decode(b) ==
  IF b = None THEN [error |-> TRUE, out |-> <<>>]
  ELSE A2BBase64(Val(b), 1, 0, 0, 0, <<>>)

\* lines 124-137 with the test of the key `name` left out
post_attachment_body_only(attachment) ==
  IF attachment = None
    THEN [error |-> "none", bytes |-> None, name |-> None]
    ELSE LET a == Val(attachment) IN
         IF a.dict /\ "body" \in a.keys /\ a.body # None
           THEN [error |-> "none",
                 bytes |-> Some(attachment_bytes_of(Val(a.body))),
                 name |-> a.name]
           ELSE [error |-> "MalformedAttachment", bytes |-> None, name |-> None]

\* post, lines 124-137.  A JSON attachment is [dict, keys, body, name]: whether
\* it is an object, the keys it has, and the values of body and name (None
\* for a JSON null).  `attachment` is None when the request has no such key.
post_attachment(attachment) ==
  IF attachment = None
    THEN [error |-> "none", bytes |-> None, name |-> None]
    ELSE LET a == Val(attachment) IN
         IF a.dict /\ "body" \in a.keys /\ "name" \in a.keys
           THEN IF a.body = None
                  \* None has no split: the handler raises
                  THEN [error |-> "InternalError", bytes |-> None, name |-> None]
                  ELSE [error |-> "none",
                        bytes |-> Some(attachment_bytes_of(Val(a.body))),
                        name |-> a.name]
           ELSE [error |-> "MalformedAttachment", bytes |-> None, name |-> None]

----------------------------------------------------------------------------
(* State                                                                   *)

VARIABLES
  comments,       \* the committed rows of the comment table
  nextId,         \* the next value of the comment id sequence
  notifications,  \* the committed rows of the user notification table, oldest first
  created,        \* history: the id and the text of every comment at its creation
  req,            \* per worker, the request it is handling
  last,           \* the response that was sent last, with what its request did
  family,         \* the family of requests that the clients of this run send
  call            \* a call of a function of this file on its own, with its result

vars == <<comments, nextId, notifications, created, req, last, family, call>>

Workers == {"w1", "w2"}

\* at most this many comment ids are handed out
MaxComments == 1

\* a worker without a request; also the shape of every request record
Idle ==
  [pc |-> "idle", op |-> "none", user |-> "none", data |-> None,
   c |-> None, loaded |-> None, mentioned |-> <<>>, cid |-> 0,
   committed |-> FALSE, pushed |-> <<>>, broadcast |-> <<>>, undelivered |-> {},
   sent |-> None, result |-> "none"]

\* no call of a function on its own; also the shape of every such call
NoCall ==
  [fn |-> "none", pc |-> "none", text |-> <<>>, bytes |-> <<>>, header |-> FALSE,
   users |-> <<>>, previous |-> <<>>, decoded |-> <<>>, error |-> FALSE]

Row(id) == CHOOSE c \in comments : c.id = id

Exists(id) == \E c \in comments : c.id = id

----------------------------------------------------------------------------
(* The access layer that the handlers call (baselayer's                    *)
(* get_if_accessible_by and the policies of skyportal's models).           *)

\* Comment.is_accessible_by: readable through a shared group, writable by its author
comment_is_accessible_by(row, u, mode) ==
  IF mode = "read" THEN row.groups \cap accessible_groups[u] # {} ELSE row.author = u

\* Comment.get_if_accessible_by(id, user, mode=mode, raise_if_none=raise_if_none):
\* raises on a row the user may not access, and on a missing row when asked to
Comment_get_if_accessible_by(id, u, mode, raise_if_none) ==
  IF ~Exists(id)
    THEN [raised |-> raise_if_none, row |-> None]
    ELSE IF comment_is_accessible_by(Row(id), u, mode)
           THEN [raised |-> FALSE, row |-> Some(Row(id))]
           ELSE [raised |-> TRUE, row |-> None]

\* Group.get_if_accessible_by(ids, user, raise_if_none=True): every group or none
Group_get_if_accessible_by(ids, u) ==
  [raised |-> ~(ids \subseteq accessible_groups[u]), rows |-> ids]

\* Comment.__schema__().load(data, partial=True) with data['id'] set: the fields
\* of the request that are columns of the comment are set on the loaded row
schema_load(row, data) ==
  [row EXCEPT !.text = IF data.text = None THEN @ ELSE Val(data.text),
              !.attachment_name =
                 IF data.attachment_name = None THEN @ ELSE Val(data.attachment_name),
              !.author = IF data.author_id = None THEN @ ELSE Val(data.author_id)]

----------------------------------------------------------------------------
(* CommentHandler.post up to its commit                                    *)

\* lines 116-122, with the groups of the request kept when they are all
\* accessible and the accessible ones kept otherwise
post_groups_partial(u, group_ids) ==
  IF group_ids = None \/ Val(group_ids) = {}
    THEN [raised |-> FALSE, rows |-> accessible_groups[u]]
    ELSE [raised |-> FALSE, rows |-> Val(group_ids) \cap accessible_groups[u]]

\* lines 116-122 with the default taken only when group_ids is absent
post_groups_default_on_none(u, group_ids) ==
  IF group_ids = None
    THEN [raised |-> FALSE, rows |-> accessible_groups[u]]
    ELSE Group_get_if_accessible_by(Val(group_ids), u)

\* lines 116-122
post_groups(u, group_ids) ==
  IF group_ids = None \/ Val(group_ids) = {}
    THEN [raised |-> FALSE, rows |-> accessible_groups[u]]
    ELSE Group_get_if_accessible_by(Val(group_ids), u)

PostFails(error) == [error |-> error, c |-> None, mentioned |-> <<>>]

\* lines 110-157: the error the handler ends with before it reaches its commit,
\* or the comment and the users whose notifications it adds to its session
post_prepare(u, data) ==
  IF data.obj_id = None THEN PostFails("MissingField")
  ELSE
    LET groups == post_groups(u, data.group_ids)
        att == post_attachment(data.attachment)
    IN  IF groups.raised THEN PostFails("AccessDenied")
        ELSE IF att.error # "none" THEN PostFails(att.error)
        \* users_mentioned(None): None has no replace, the handler raises
        ELSE IF data.text = None THEN PostFails("InternalError")
        ELSE [error |-> "none",
              c |-> Some([id |-> 0,
                          text |-> Val(data.text),
                          obj_id |-> Val(data.obj_id),
                          attachment_bytes |-> att.bytes,
                          attachment_name |-> att.name,
                          author |-> u,
                          groups |-> groups.rows]),
              mentioned |-> users_mentioned(Val(data.text))]

----------------------------------------------------------------------------
(* CommentHandler.put up to its commit                                     *)

\* lines 224-236 with the check made before the bytes of the request are set
put_attachment_check_first(c, attachment_bytes) ==
  [error |-> IF (c.attachment_bytes = None) # (c.attachment_name = None)
               THEN "AttachmentConsistencyError" ELSE "none",
   c |-> IF attachment_bytes # None
           THEN [c EXCEPT !.attachment_bytes =
                            Some(attachment_bytes_of(Val(attachment_bytes)))]
           ELSE c]

\* lines 224-236
put_attachment(c, attachment_bytes) ==
  LET c2 == IF attachment_bytes # None
              THEN [c EXCEPT !.attachment_bytes =
                               Some(attachment_bytes_of(Val(attachment_bytes)))]
              ELSE c
      bytes_is_none == c2.attachment_bytes = None
      name_is_none == c2.attachment_name = None
  IN  [error |-> IF bytes_is_none # name_is_none
                   THEN "AttachmentConsistencyError" ELSE "none",
       c |-> c2]

\* lines 238-242 with the accessible groups of the list assigned and no error
put_groups_partial(c, u, group_ids) ==
  IF group_ids # None
    THEN [raised |-> FALSE,
          c |-> [c EXCEPT !.groups = Val(group_ids) \cap accessible_groups[u]]]
    ELSE [raised |-> FALSE, c |-> c]

\* lines 238-242
put_groups(c, u, group_ids) ==
  IF group_ids # None
    THEN LET groups == Group_get_if_accessible_by(Val(group_ids), u)
         IN  [raised |-> groups.raised, c |-> [c EXCEPT !.groups = groups.rows]]
    ELSE [raised |-> FALSE, c |-> c]

\* lines 209-211, the fetch of put
put_fetch(id, u) == Comment_get_if_accessible_by(id, u, "update", TRUE)

PutFails(error) == [error |-> error, c |-> None, loaded |-> None]

\* lines 209-242: the error the handler ends with before it reaches its commit,
\* or the row as loaded and as changed in its session
put_prepare(u, data) ==
  LET fetched == put_fetch(data.comment_id, u) IN
  IF fetched.raised THEN PutFails("NotFoundOrForbidden")
  ELSE IF ~data.well_typed THEN PutFails("InvalidParameters")
  ELSE
    LET att == put_attachment(schema_load(Val(fetched.row), data), data.attachment_bytes)
        grp == put_groups(att.c, u, data.group_ids)
    IN  IF att.error # "none" THEN PutFails(att.error)
        ELSE IF grp.raised THEN PutFails("AccessDenied")
        ELSE [error |-> "none", c |-> Some(grp.c), loaded |-> fetched.row]

----------------------------------------------------------------------------
(* CommentHandler.delete and CommentHandler.get: the fetch                 *)

\* lines 269-271 without raise_if_none
delete_fetch_no_raise(id, u) == Comment_get_if_accessible_by(id, u, "delete", FALSE)

\* lines 269-271
delete_fetch(id, u) == Comment_get_if_accessible_by(id, u, "delete", TRUE)

\* lines 51-53
get_fetch(id, u) == Comment_get_if_accessible_by(id, u, "read", TRUE)

\* lines 326-328
attachment_fetch(id, u) == Comment_get_if_accessible_by(id, u, "read", TRUE)

\* what a handler ends with when its fetch gave no row: the access layer's
\* error, or the error of reading an attribute of None
FetchError(fetched) == IF fetched.raised THEN "NotFoundOrForbidden" ELSE "InternalError"

----------------------------------------------------------------------------
(* The requests that clients send                                          *)

\* "@a, @b-c (@a)."
TextMentions ==
  <<"@", "a", ",", " ", "@", "b", "-", "c", " ", "(", "@", "a", ")", ".">>

\* "a @zed"
TextPlain == <<"a", " ", "@", "z", "e", "d">>

\* "@a ok"
TextEdited == <<"@", "a", " ", "o", "k">>

\* "aGk="
PlainBody == <<"a", "G", "k", "=">>

\* "data:;base64,aGk="
DataUrlBody == <<"d", "a", "t", "a", ":", ";">> \o Base64Marker \o PlainBody

\* "QQ=="
OtherBody == <<"Q", "Q", "=", "=">>

\* "f.txt"
FileName == <<"f", ".", "t", "x", "t">>

Attachment(dict, keys, body, name) ==
  Some([dict |-> dict, keys |-> keys, body |-> body, name |-> name])

PostBase ==
  [obj_id |-> Some("o1"), text |-> Some(TextMentions), group_ids |-> None,
   attachment |-> None]

GoodAttachment == Attachment(TRUE, {"body", "name"}, Some(PlainBody), Some(FileName))

\* A run takes its requests from one family: the requests of a family differ
\* in the keys the family is about and are PostBase (PutBase) elsewhere.
Families == {"mentions", "visibility", "attachments", "errors", "overlap", "authorship"}

\* the bodies of the create requests
PostRequests(fam) ==
  CASE fam = "mentions" ->
         {[PostBase EXCEPT !.obj_id = Some(o), !.text = Some(t)] :
            o \in Objs, t \in {TextMentions, TextPlain}}
    [] fam = "visibility" ->
         {[PostBase EXCEPT !.group_ids = v] :
            v \in {None, Some({}), Some({"g1"}), Some({"g1", "g2"}), Some({"g1", "g3"})}}
    [] fam = "attachments" ->
         {[PostBase EXCEPT !.attachment = v] :
            v \in {None,
                   GoodAttachment,
                   Attachment(TRUE, {"body", "name"}, Some(DataUrlBody), Some(FileName)),
                   Attachment(TRUE, {"body", "name"}, Some(PlainBody), None),
                   Attachment(TRUE, {"body", "name"}, None, Some(FileName)),
                   Attachment(TRUE, {"body"}, Some(PlainBody), None),
                   Attachment(TRUE, {"name"}, None, Some(FileName)),
                   Attachment(FALSE, {}, None, None)}}
    [] fam = "errors" ->
         {[obj_id |-> o, text |-> t, group_ids |-> g, attachment |-> a] :
            o \in {None, Some("o1")},
            t \in {None, Some(TextMentions)},
            g \in {None, Some({"g1", "g3"})},
            a \in {None, Attachment(FALSE, {}, None, None)}}
    [] fam = "overlap" -> {PostBase}
    [] fam = "authorship" -> {PostBase}

CommentIds == 1..MaxComments

\* The body of an update is the comment without its id (CommentNoID, line 189)
\* and group_ids: put hands every key but group_ids and attachment_bytes to
\* the schema, author_id among them.
PutBase(id) ==
  [comment_id |-> id, text |-> None, attachment_name |-> None,
   attachment_bytes |-> None, group_ids |-> None, author_id |-> None,
   well_typed |-> TRUE]

\* the bodies of the update requests of comment id
PutRequests(fam, id) ==
  CASE fam = "mentions" ->
         {PutBase(id), [PutBase(id) EXCEPT !.text = Some(TextEdited)]}
    [] fam = "visibility" ->
         {[PutBase(id) EXCEPT !.group_ids = v] :
            v \in {None, Some({}), Some({"g1"}), Some({"g1", "g2"}), Some({"g1", "g3"})}}
    [] fam = "attachments" ->
         {[PutBase(id) EXCEPT !.attachment_name = n, !.attachment_bytes = b] :
            n \in {None, Some(None), Some(Some(FileName))},
            b \in {None, Some(OtherBody), Some(DataUrlBody)}}
    [] fam = "errors" ->
         {[comment_id |-> id, text |-> t, attachment_name |-> n,
           attachment_bytes |-> None, group_ids |-> g, author_id |-> None,
           well_typed |-> wt] :
            t \in {None, Some(TextEdited)},
            n \in {None, Some(Some(FileName))},
            g \in {None, Some({"g1", "g3"})},
            wt \in BOOLEAN}
    [] fam = "overlap" ->
         {PutBase(id), [PutBase(id) EXCEPT !.text = Some(TextEdited)]}
    [] fam = "authorship" ->
         {[PutBase(id) EXCEPT !.text = t, !.author_id = a] :
            t \in {None, Some(TextEdited)}, a \in {None, Some("u1"), Some("u2")}}

\* the users that send the requests
Senders(fam) == IF fam = "overlap" THEN {"u1"} ELSE Users

\* A worker takes a request when it is idle.  Two requests are handled at the
\* same time only in the family "overlap"; the first idle worker takes the
\* request.
CanArrive(w) ==
  /\ req[w].pc = "idle"
  /\ w = "w1" \/ req["w1"].pc # "idle"
  /\ family = "overlap" \/ \A v \in Workers : req[v].pc = "idle"

Request(op, u, data) == [Idle EXCEPT !.op = op, !.user = u, !.data = Some(data)]

\* the handler returns (or raises) before its commit: the response is sent
Responds(r, result) ==
  /\ last' = [r EXCEPT !.pc = "done", !.result = result]
  /\ UNCHANGED req

\* the handler pushes to the users it found mentioned, then goes on to its commit
Proceeds_pushing(w, r) ==
  /\ req' = [req EXCEPT ![w] = [r EXCEPT !.pc = "commit", !.pushed = r.mentioned]]
  /\ last' = Idle

\* the handler goes on to its commit
Proceeds(w, r) ==
  /\ req' = [req EXCEPT ![w] = [r EXCEPT !.pc = "commit"]]
  /\ last' = Idle

----------------------------------------------------------------------------
(* The handlers up to their commit                                         *)

Init ==
  /\ comments = {}
  /\ nextId = 1
  /\ notifications = <<>>
  /\ created = {}
  /\ req = [w \in Workers |-> Idle]
  /\ last = Idle
  /\ family \in Families
  /\ call = NoCall

\* CommentHandler.get, lines 51-54
Get(w, u, id) ==
  /\ CanArrive(w)
  /\ LET fetched == get_fetch(id, u)
         r == [Request("get", u, [comment_id |-> id]) EXCEPT !.cid = id]
     IN  IF fetched.row = None
           THEN Responds(r, FetchError(fetched))
           ELSE Responds([r EXCEPT !.loaded = fetched.row], "ok")
  /\ UNCHANGED <<comments, nextId, notifications, created, family, call>>

\* CommentHandler.post, lines 110-159
Post(w, u, data) ==
  /\ CanArrive(w)
  /\ nextId + Cardinality({v \in Workers : req[v].op = "post"}) <= MaxComments
  /\ LET out == post_prepare(u, data)
         r == [Request("post", u, data) EXCEPT !.c = out.c, !.mentioned = out.mentioned]
     IN  IF out.error # "none" THEN Responds(r, out.error) ELSE Proceeds(w, r)
  /\ UNCHANGED <<comments, nextId, notifications, created, family, call>>

\* CommentHandler.put, lines 209-242
Put(w, u, data) ==
  /\ CanArrive(w)
  /\ LET out == put_prepare(u, data)
         r == [Request("put", u, data) EXCEPT
                 !.c = out.c, !.loaded = out.loaded, !.cid = data.comment_id]
     IN  IF out.error # "none" THEN Responds(r, out.error) ELSE Proceeds(w, r)
  /\ UNCHANGED <<comments, nextId, notifications, created, family, call>>

\* CommentHandler.delete, lines 269-273
Delete(w, u, id) ==
  /\ CanArrive(w)
  /\ LET fetched == delete_fetch(id, u)
         r == [Request("delete", u, [comment_id |-> id]) EXCEPT !.cid = id]
     IN  IF fetched.row = None
           THEN Responds(r, FetchError(fetched))
           ELSE Proceeds(w, [r EXCEPT !.loaded = fetched.row])
  /\ UNCHANGED <<comments, nextId, notifications, created, family, call>>

\* CommentAttachmentHandler.get, lines 324-344, which the clients of the
\* family "attachments" call.  Its commit writes nothing and may fail.  In the
\* inline mode the bytes are decoded as text, which the model does for ASCII
\* bytes and takes to raise for any other.
AttachmentGet(w, u, id, download, commits) ==
  /\ CanArrive(w) /\ family = "attachments"
  /\ LET fetched == attachment_fetch(id, u)
         r == [Request("attachment", u, [comment_id |-> id, download |-> download])
                 EXCEPT !.cid = id, !.loaded = fetched.row]
         decoded == b64decode(Val(fetched.row).attachment_bytes)
     IN  IF fetched.row = None THEN Responds(r, FetchError(fetched))
         ELSE IF ~commits THEN Responds(r, "StoreError")
         ELSE IF decoded.error THEN Responds(r, "InternalError")
         ELSE IF ~download /\ \E i \in 1..Len(decoded.out) : decoded.out[i] > 127
           THEN Responds(r, "InternalError")
         ELSE Responds([r EXCEPT !.sent = Some(decoded.out)], "ok")
  /\ UNCHANGED <<comments, nextId, notifications, created, family, call>>

----------------------------------------------------------------------------
(* verify_and_commit: the session's changes reach the store in one         *)
(* transaction, or none does                                               *)

\* post, lines 149-157: a notification per mentioned user.  cid is the comment
\* whose creation wrote the row.
mention_notifications(r, cid) ==
  [i \in 1..Len(r.mentioned) |->
     [user |-> r.mentioned[i],
      text |-> <<Username[r.user], Val(r.c).obj_id>>,
      url |-> Val(r.c).obj_id,
      cid |-> cid]]

\* the columns that put changes
UpdatedColumns == {"text", "attachment_name", "attachment_bytes", "groups", "author"}

\* the columns whose value in the session differs from the loaded one
Dirty(r) == {f \in UpdatedColumns : Val(r.c)[f] # Val(r.loaded)[f]}

\* put, line 244, as an insert-or-update of the session's row
commit_put_upsert(r) ==
  {c \in comments : c.id # r.cid} \cup {Val(r.c)}

\* put, line 244: the UPDATE of the dirty columns of the row
commit_put(r) ==
  {IF c.id = r.cid
     THEN [f \in DOMAIN c |-> IF f \in Dirty(r) THEN Val(r.c)[f] ELSE c[f]]
     ELSE c : c \in comments}

\* post, lines 159-160, with the comment committed on its own, ahead of the
\* notifications
CommitPost_comment_only(w) ==
  LET r == req[w] IN
  /\ r.pc = "commit" /\ r.op = "post"
  /\ comments' = comments \cup {[Val(r.c) EXCEPT !.id = nextId]}
  /\ nextId' = nextId + 1
  /\ created' = created \cup {[id |-> nextId, text |-> Val(r.c).text]}
  /\ req' = [req EXCEPT ![w] =
               [r EXCEPT !.c = Some([Val(r.c) EXCEPT !.id = nextId]),
                         !.cid = nextId,
                         !.committed = TRUE,
                         !.pc = IF r.mentioned # <<>> THEN "push_users" ELSE "push_all"]]
  /\ UNCHANGED <<notifications, last, family, call>>

\* post, lines 159-160
CommitPost(w) ==
  LET r == req[w] IN
  /\ r.pc = "commit" /\ r.op = "post"
  /\ comments' = comments \cup {[Val(r.c) EXCEPT !.id = nextId]}
  /\ nextId' = nextId + 1
  /\ notifications' = notifications \o mention_notifications(r, nextId)
  /\ created' = created \cup {[id |-> nextId, text |-> Val(r.c).text]}
  /\ req' = [req EXCEPT ![w] =
               [r EXCEPT !.c = Some([Val(r.c) EXCEPT !.id = nextId]),
                         !.cid = nextId,
                         !.committed = TRUE,
                         !.pc = IF r.mentioned # <<>> THEN "push_users" ELSE "push_all"]]
  /\ UNCHANGED <<last, family, call>>

\* put, line 244, with a notification written for every user that the text
\* of the updated comment mentions
CommitPut_notifying(w) ==
  LET r == req[w]
      mentioned == users_mentioned(Val(r.c).text)
  IN
  /\ r.pc = "commit" /\ r.op = "put"
  /\ Exists(r.cid) \/ Dirty(r) = {}
  /\ comments' = commit_put(r)
  /\ notifications' =
       notifications \o [i \in 1..Len(mentioned) |->
                           [user |-> mentioned[i],
                            text |-> <<Username[r.user], Val(r.c).obj_id>>,
                            url |-> Val(r.c).obj_id,
                            cid |-> r.cid]]
  /\ req' = [req EXCEPT ![w] = [r EXCEPT !.committed = TRUE, !.pc = "push_all"]]
  /\ UNCHANGED <<nextId, created, last, family, call>>

\* put, line 244.  An UPDATE of a row that is gone matches nothing and fails
\* the commit; a session without changes commits whatever the store holds.
CommitPut(w) ==
  LET r == req[w] IN
  /\ r.pc = "commit" /\ r.op = "put"
  /\ Exists(r.cid) \/ Dirty(r) = {}
  /\ comments' = commit_put(r)
  /\ req' = [req EXCEPT ![w] = [r EXCEPT !.committed = TRUE, !.pc = "push_all"]]
  /\ UNCHANGED <<nextId, notifications, created, last, family, call>>

\* delete, lines 273-274
CommitDelete(w) ==
  LET r == req[w] IN
  /\ r.pc = "commit" /\ r.op = "delete"
  /\ comments' = {c \in comments : c.id # r.cid}
  /\ req' = [req EXCEPT ![w] = [r EXCEPT !.committed = TRUE, !.pc = "push_all"]]
  /\ UNCHANGED <<nextId, notifications, created, last, family, call>>

\* verify_and_commit raises: nothing of the session is stored, nothing is pushed
CommitFails(w) ==
  LET r == req[w] IN
  /\ r.pc = "commit"
  /\ last' = [r EXCEPT !.pc = "done", !.result = "StoreError"]
  /\ req' = [req EXCEPT ![w] = Idle]
  /\ UNCHANGED <<comments, nextId, notifications, created, family, call>>

----------------------------------------------------------------------------
(* After the commit: the pushes and the response                           *)

\* The push transport (flow.push, push_all) is best effort: an event may fail
\* to be delivered, and the call returns all the same.  `undelivered` holds
\* the users, and "all" for the broadcast, whose event was lost.

\* post, lines 161-163, with a failed delivery raised to the handler
PushUser_raising(w, delivered) ==
  LET r == req[w]
      pushed == Append(r.pushed, r.mentioned[Len(r.pushed) + 1])
  IN
  /\ r.pc = "push_users"
  /\ IF delivered
       THEN /\ req' = [req EXCEPT ![w] =
                         [r EXCEPT !.pushed = pushed,
                                   !.pc = IF Len(pushed) = Len(r.mentioned)
                                            THEN "push_all" ELSE "push_users"]]
            /\ UNCHANGED last
       ELSE /\ req' = [req EXCEPT ![w] = Idle]
            /\ last' = [r EXCEPT !.pc = "done", !.result = "InternalError",
                                  !.undelivered = {r.mentioned[Len(r.pushed) + 1]}]
  /\ UNCHANGED <<comments, nextId, notifications, created, family, call>>

\* post, lines 161-163: one push per mentioned user, in the order of the list
PushUser(w, delivered) ==
  LET r == req[w]
      user == r.mentioned[Len(r.pushed) + 1]
      pushed == Append(r.pushed, user)
  IN
  /\ r.pc = "push_users"
  /\ req' = [req EXCEPT ![w] =
               [r EXCEPT !.pushed = pushed,
                         !.undelivered = IF delivered THEN @ ELSE @ \cup {user},
                         !.pc = IF Len(pushed) = Len(r.mentioned)
                                  THEN "push_all" ELSE "push_users"]]
  /\ UNCHANGED <<comments, nextId, notifications, created, last, family, call>>

\* the refresh events of a request, sent only when the request mentioned a user
refresh_events_on_mention(r) ==
  IF r.mentioned = <<>> THEN <<>>
  ELSE <<internal_key[Val(r.c).obj_id]>>

\* post, lines 165-168; put, lines 245-247; delete, lines 272 and 275
refresh_events(r) ==
  IF r.op = "delete"
    THEN <<internal_key[Val(r.loaded).obj_id]>>
    ELSE <<internal_key[Val(r.c).obj_id]>>

\* the broadcast and the response of success
PushAll(w, delivered) ==
  LET r == req[w] IN
  /\ r.pc = "push_all"
  /\ last' = [r EXCEPT !.pc = "done", !.broadcast = refresh_events(r),
                        !.undelivered = IF delivered THEN @ ELSE @ \cup {"all"},
                        !.result = "ok"]
  /\ req' = [req EXCEPT ![w] = Idle]
  /\ UNCHANGED <<comments, nextId, notifications, created, family, call>>

\* post, line 167, and put, line 246, read comment.obj after the commit.  When
\* the session expires its rows at commit (which is configured outside of this
\* file) the read loads the row again and raises if the row has been deleted
\* since; otherwise PushAll is what happens.
PushAllRaises(w) ==
  LET r == req[w] IN
  /\ r.pc = "push_all" /\ r.op \in {"post", "put"}
  /\ ~Exists(r.cid)
  /\ last' = [r EXCEPT !.pc = "done", !.result = "InternalError"]
  /\ req' = [req EXCEPT ![w] = Idle]
  /\ UNCHANGED <<comments, nextId, notifications, created, family, call>>

Next ==
  \E w \in Workers :
    \/ \E u \in Senders(family), id \in CommentIds : Get(w, u, id)
    \/ \E u \in Senders(family), id \in CommentIds, download \in BOOLEAN, commits \in BOOLEAN :
         AttachmentGet(w, u, id, download, commits)
    \/ \E u \in Senders(family), data \in PostRequests(family) : Post(w, u, data)
    \/ \E u \in Senders(family), id \in CommentIds :
         \E data \in PutRequests(family, id) : Put(w, u, data)
    \/ \E u \in Senders(family), id \in CommentIds : Delete(w, u, id)
    \/ CommitPost(w)
    \/ CommitPut(w)
    \/ CommitDelete(w)
    \/ CommitFails(w)
    \/ \E delivered \in BOOLEAN : PushUser(w, delivered)
    \/ \E delivered \in BOOLEAN : PushAll(w, delivered)
    \/ PushAllRaises(w)

Spec == Init /\ [][Next]_vars

----------------------------------------------------------------------------
(* users_mentioned on its own, on every text of a bounded set              *)

\* the pieces that the texts are made of: the mention sign, the two usernames
\* of the directory, a hyphen, the two separators and a punctuation character
TextPieces ==
  {<<"@">>, <<"a">>, <<"b", "-", "c">>, <<"-">>, <<",">>, <<" ">>, <<".">>}

\* a text has at most this many pieces
MaxPieces == 5

RECURSIVE TextsOf(_)
TextsOf(n) ==
  IF n = 0 THEN {<<>>}
  ELSE LET shorter == TextsOf(n - 1)
       IN  shorter \cup {t \o p : t \in shorter, p \in TextPieces}

\* the store is empty and stays so; no request is sent
NoRequests ==
  /\ comments = {}
  /\ nextId = 1
  /\ notifications = <<>>
  /\ created = {}
  /\ req = [w \in Workers |-> Idle]
  /\ last = Idle
  /\ family = "none"

MentionsInit ==
  /\ NoRequests
  /\ call \in {[NoCall EXCEPT !.fn = "users_mentioned", !.pc = "ready", !.text = t] :
                 t \in TextsOf(MaxPieces)}

\* users_mentioned(text), lines 16-24; it is called once, and once more on
\* the same text
MentionsCall ==
  /\ call.fn = "users_mentioned" /\ call.pc \in {"ready", "called"}
  /\ call' = [call EXCEPT !.users = users_mentioned(call.text),
                           !.previous = call.users,
                           !.pc = IF call.pc = "ready" THEN "called" ELSE "called again"]
  /\ UNCHANGED <<comments, nextId, notifications, created, req, last, family>>

MentionsNext == MentionsCall

MentionsSpec == MentionsInit /\ [][MentionsNext]_vars

----------------------------------------------------------------------------
(* An attachment from the client's bytes to the bytes that are downloaded, *)
(* on every byte sequence of a bounded set                                 *)

\* the values of the bytes of an attachment
ByteValues == {0, 104, 255}

\* an attachment has at most this many bytes
MaxBytes == 3

RECURSIVE BytesOf(_)
BytesOf(n) ==
  IF n = 0 THEN {<<>>}
  ELSE LET shorter == BytesOf(n - 1)
       IN  shorter \cup {Append(b, v) : b \in shorter, v \in ByteValues}

\* the character of a value of six bits in the base64 alphabet
B64Char(v) ==
  IF v < 26 THEN Ascii[v + 34]
  ELSE IF v < 52 THEN Ascii[v + 40]
  ELSE IF v < 62 THEN Ascii[v - 35]
  ELSE IF v = 62 THEN "+" ELSE "/"

\* the body that a client sends: the base64 text of its bytes, three bytes to
\* four characters, the last group padded with equals signs
RECURSIVE b64encode(_)
b64encode(b) ==
  IF Len(b) = 0 THEN <<>>
  ELSE IF Len(b) = 1
    THEN <<B64Char(b[1] \div 4), B64Char((b[1] % 4) * 16), "=", "=">>
  ELSE IF Len(b) = 2
    THEN <<B64Char(b[1] \div 4), B64Char((b[1] % 4) * 16 + b[2] \div 16),
           B64Char((b[2] % 16) * 4), "=">>
  ELSE <<B64Char(b[1] \div 4), B64Char((b[1] % 4) * 16 + b[2] \div 16),
         B64Char((b[2] % 16) * 4 + b[3] \div 64), B64Char(b[3] % 64)>>
       \o b64encode(SubSeq(b, 4, Len(b)))

\* "data:;base64,"
DataUrlHeader == <<"d", "a", "t", "a", ":", ";">> \o Base64Marker

RoundTripInit ==
  /\ NoRequests
  /\ call \in {[NoCall EXCEPT !.fn = "roundtrip", !.pc = "ready",
                               !.bytes = b, !.header = h] :
                 b \in BytesOf(MaxBytes), h \in BOOLEAN}

\* The attachment as post stores it (lines 124-147) and as
\* CommentAttachmentHandler.get writes it in its download mode (line 337).
RoundTripCall ==
  /\ call.fn = "roundtrip" /\ call.pc = "ready"
  /\ LET body == (IF call.header THEN DataUrlHeader ELSE <<>>) \o b64encode(call.bytes)
         attachment == Attachment(TRUE, {"body", "name"}, Some(body), Some(FileName))
         out == post_prepare("u1", [PostBase EXCEPT !.attachment = attachment])
         written == b64decode(Val(out.c).attachment_bytes)
     IN  call' = IF out.error # "none"
                   THEN [call EXCEPT !.pc = "called", !.error = TRUE]
                   ELSE [call EXCEPT !.pc = "called", !.error = written.error,
                                     !.decoded = written.out]
  /\ UNCHANGED <<comments, nextId, notifications, created, req, last, family>>

RoundTripNext == RoundTripCall

RoundTripSpec == RoundTripInit /\ [][RoundTripNext]_vars

----------------------------------------------------------------------------
(* Vocabulary of the properties                                            *)

\* A request arrives in this step: its handler answers at once (the response
\* is the new value of last) or goes on to its commit (in a worker).
Answered == req' = req /\ last' # last
Started(w) == req[w].pc = "idle" /\ req'[w].pc = "commit"
Arrives == Answered \/ \E w \in Workers : Started(w)

\* the request that arrives in this step
Arrived == IF Answered THEN last' ELSE req'[CHOOSE w \in Workers : Started(w)]

StoreUnchanged ==
  /\ comments' = comments
  /\ notifications' = notifications
  /\ nextId' = nextId

\* the request failed without an effect: nothing of it is stored, nothing pushed
Rejected(r, error) ==
  /\ r.pc = "done" /\ r.result = error
  /\ r.pushed = <<>> /\ r.broadcast = <<>>

\* the access mode of a handler's fetch
Mode(op) == IF op = "put" THEN "update" ELSE IF op = "delete" THEN "delete" ELSE "read"

Consistent(c) == (c.attachment_name = None) <=> (c.attachment_bytes = None)

\* the request names a group that its sender cannot access
DeniedGroups(r) ==
  /\ Val(r.data).group_ids # None
  /\ ~(Val(Val(r.data).group_ids) \subseteq accessible_groups[r.user])

\* the users with a mention in text: those whose username is a candidate
Mentioned(text) == {u \in Users : Username[u] \in Range(MentionedUsernames(text))}

Finished(op) == last.pc = "done" /\ last.op = op

----------------------------------------------------------------------------
(* C1.  Joint nullability: every stored comment has attachment_name and    *)
(* attachment_bytes both null or both non-null.  The code does not keep    *)
(* it: post stores the name of the request as it is.                       *)
C1_JointNullability == \A c \in comments : Consistent(c)

(* C2.  Every stored comment is visible to at least one group.  The code   *)
(* does not keep it: the default of post and an empty group_ids of put     *)
(* both store an empty set.                                                *)
C2_NonEmptyVisibility == \A c \in comments : c.groups # {}

(* C3.  Visibility resolution is all or nothing: a create or an update     *)
(* whose group_ids name a group the sender cannot access stores nothing    *)
(* and pushes nothing, and it fails with AccessDenied when it gets as far  *)
(* as the resolution (a create with an obj_id; an update of a comment of   *)
(* the sender that is well typed and leaves the attachment consistent).    *)
C3_GroupsAllOrNothing ==
  [][Arrives /\ Arrived.op \in {"post", "put"} /\ DeniedGroups(Arrived)
       => /\ Arrived.pc = "done" /\ Arrived.result # "ok"
          /\ Arrived.pushed = <<>> /\ Arrived.broadcast = <<>>
          /\ StoreUnchanged
          /\ Arrived.op = "post" /\ Val(Arrived.data).obj_id # None
               => Arrived.result = "AccessDenied"
          /\ ( /\ Arrived.op = "put"
               /\ Exists(Arrived.cid)
               /\ comment_is_accessible_by(Row(Arrived.cid), Arrived.user, "update")
               /\ Val(Arrived.data).well_typed
               /\ Val(Arrived.data).attachment_name = None
               /\ Val(Arrived.data).attachment_bytes = None
               /\ Consistent(Row(Arrived.cid)) )
               => Arrived.result = "AccessDenied"]_vars

\* an update that names an inaccessible group was denied and the comment is as before
C3_Witness ==
  /\ Finished("put") /\ last.result = "AccessDenied" /\ DeniedGroups(last)
  /\ Exists(last.cid) /\ Row(last.cid).groups = {"g1", "g2"}
  /\ notifications # <<>>

(* C4.  Every stored notification is for an existing user whose username   *)
(* is a mention in the text that a created comment had at its creation    *)
(* (the comment whose creation wrote the notification).                    *)
C4_NotificationProvenance ==
  \A i \in 1..Len(notifications) :
    LET n == notifications[i] IN
    /\ n.user \in Users
    /\ \E c \in created : c.id = n.cid /\ n.user \in Mentioned(c.text)

\* notifications are stored, and the text of their comment has changed since
C4_Witness ==
  /\ Len(notifications) = 2
  /\ \E c \in comments : c.id = notifications[1].cid /\ Mentioned(c.text) # Users

(* C5.  A successful create whose text mentions n existing users stores    *)
(* exactly one notification for each of them, pushes exactly once to each  *)
(* of them, the author included, and sends exactly one refresh event.      *)
C5_OnePerMentionedUser ==
  Finished("post") /\ last.result = "ok" =>
    LET mentioned == Mentioned(Val(Val(last.data).text))
        mine == SelectSeq(notifications, LAMBDA n : n.cid = last.cid)
    IN  /\ Len(mine) = Cardinality(mentioned)
        /\ {mine[i].user : i \in 1..Len(mine)} = mentioned
        /\ Len(last.pushed) = Cardinality(mentioned)
        /\ Range(last.pushed) = mentioned
        /\ Len(last.broadcast) = 1

\* a create by u1 that mentions u1 twice and u2 once has succeeded
C5_Witness ==
  /\ Finished("post") /\ last.result = "ok" /\ last.user = "u1"
  /\ Val(Val(last.data).text) = TextMentions
  /\ Len(last.pushed) = 2

(* C6.  Every successful create, update and delete sends a refresh event   *)
(* for the object that the comment annotates (for a delete: annotated when *)
(* it was fetched), whether or not the request mentions anyone.            *)
C6_RefreshOnEveryMutation ==
  last.pc = "done" /\ last.op \in {"post", "put", "delete"} /\ last.result = "ok" =>
    last.broadcast =
      <<internal_key[IF last.op = "post" THEN Val(Val(last.data).obj_id)
                     ELSE Val(last.loaded).obj_id]>>

\* a delete of a comment on o2 that mentioned no one has succeeded
C6_Witness ==
  /\ Finished("delete") /\ last.result = "ok"
  /\ last.broadcast = <<"k2">>
  /\ notifications = <<>>

(* C7.  Deleted is terminal: once an id has been handed out and its        *)
(* comment is gone from the store, no step brings the comment back,        *)
(* whatever requests are in flight, and every read, update, delete and     *)
(* attachment fetch that arrives for the id fails with                     *)
(* NotFoundOrForbidden.                                                    *)
C7_DeletedIsTerminal ==
  [][\A id \in CommentIds :
       id < nextId /\ ~Exists(id)
         => /\ \A c \in comments' : c.id # id
            /\ ( /\ Arrives
                 /\ Arrived.op \in {"get", "put", "delete", "attachment"}
                 /\ Arrived.cid = id )
                 => Rejected(Arrived, "NotFoundOrForbidden")]_vars

\* the comment has been deleted under an update that had fetched it and is
\* about to commit
C7_Witness ==
  \E w \in Workers :
    /\ req[w].op = "put" /\ req[w].pc = "commit"
    /\ req[w].cid < nextId /\ ~Exists(req[w].cid)

C9_CreateRequiresObjAndText ==
  Finished("post")
  /\ (Val(last.data).obj_id = None \/ Val(last.data).text = None)
    => /\ Rejected(last, "MissingField")
       /\ last.cid = 0

(* C10.  The attachment check of an update is made on the comment as the   *)
(* update leaves it: an update of a comment of its sender that is well     *)
(* typed fails with AttachmentConsistencyError exactly when the resulting  *)
(* name and bytes are not both null or both non-null, so that on a comment *)
(* without attachment a name alone is refused and a name with bytes is     *)
(* accepted; and when the update that sets both commits, the stored        *)
(* comment has both.                                                       *)
C10_AttachmentUpdate ==
  [][/\ ( /\ Arrives /\ Arrived.op = "put"
          /\ Exists(Arrived.cid)
          /\ comment_is_accessible_by(Row(Arrived.cid), Arrived.user, "update")
          /\ Val(Arrived.data).well_typed )
          => LET d == Val(Arrived.data)
                 row == Row(Arrived.cid)
                 name == IF d.attachment_name = None
                           THEN row.attachment_name ELSE Val(d.attachment_name)
                 has_bytes == d.attachment_bytes # None \/ row.attachment_bytes # None
             IN  /\ Arrived.result = "AttachmentConsistencyError"
                      <=> ((name # None) # has_bytes)
                 /\ Arrived.result = "AttachmentConsistencyError"
                      => Rejected(Arrived, "AttachmentConsistencyError") /\ StoreUnchanged
                 /\ name # None /\ has_bytes /\ d.group_ids = None
                      => Arrived.pc = "commit"
     /\ \A w \in Workers :
          ( /\ req[w].op = "put" /\ req[w].pc = "commit" /\ req'[w].pc = "push_all"
            /\ Val(req[w].data).attachment_name # None
            /\ Val(Val(req[w].data).attachment_name) # None
            /\ Val(req[w].data).attachment_bytes # None )
            => \A c \in comments' :
                 c.id = req[w].cid
                   => c.attachment_name # None /\ c.attachment_bytes # None]_vars

\* on a comment without attachment, an update with a name and no bytes was refused
C10_Witness ==
  /\ Finished("put") /\ last.result = "AttachmentConsistencyError"
  /\ Val(last.data).attachment_name = Some(Some(FileName))
  /\ Val(last.data).attachment_bytes = None
  /\ Exists(last.cid)
  /\ Row(last.cid).attachment_name = None /\ Row(last.cid).attachment_bytes = None

\* the attachment of a create request is present and is not an object with
\* the keys body and name
MalformedAttachment(r) ==
  /\ Val(r.data).attachment # None
  /\ LET a == Val(Val(r.data).attachment)
     IN  ~a.dict \/ "body" \notin a.keys \/ "name" \notin a.keys

(* C11.  A create whose attachment is present and is not an object, or has  *)
(* no body, or has no name, ends before anything is persisted: no comment  *)
(* and no notification is stored, no event is pushed; and its error is     *)
(* MalformedAttachment when it gets as far as the attachment (it has an    *)
(* obj_id and names no group that its sender cannot access).               *)
C11_MalformedAttachment ==
  [][Arrives /\ Arrived.op = "post" /\ MalformedAttachment(Arrived)
       => /\ Arrived.pc = "done" /\ Arrived.result # "ok"
          /\ Arrived.pushed = <<>> /\ Arrived.broadcast = <<>>
          /\ Arrived.cid = 0
          /\ StoreUnchanged
          /\ Val(Arrived.data).obj_id # None /\ ~DeniedGroups(Arrived)
               => Arrived.result = "MalformedAttachment"]_vars

\* a create that mentions users and whose attachment has a body and no name
\* was refused, and the store is empty
C11_Witness ==
  /\ Finished("post") /\ last.result = "MalformedAttachment"
  /\ Val(Val(last.data).attachment).keys = {"body"}
  /\ Val(last.data).text = Some(TextMentions)
  /\ comments = {} /\ notifications = <<>>

(* C12.  Default visibility on create: the comment that a create commits   *)
(* is visible to exactly the accessible groups of its sender when the      *)
(* request has no group_ids or an empty list, and to exactly the groups of *)
(* the list when the list is not empty (its groups are then all            *)
(* accessible to the sender).                                              *)
C12_DefaultVisibility ==
  [][\A w \in Workers :
       req[w].op = "post" /\ req[w].pc = "commit"
       /\ req'[w].pc \in {"push_users", "push_all"}
         => LET g == Val(req[w].data).group_ids
                u == req[w].user
            IN  /\ \E c \in comments' \ comments :
                     /\ c.id = req'[w].cid
                     /\ c.groups = IF g = None \/ Val(g) = {}
                                     THEN accessible_groups[u] ELSE Val(g)
                /\ g # None => Val(g) \subseteq accessible_groups[u]]_vars

\* a create with an empty list of groups has stored a comment that is visible
\* to the two accessible groups of its sender
C12_Witness ==
  /\ Finished("post") /\ last.result = "ok"
  /\ Val(last.data).group_ids = Some({})
  /\ Exists(last.cid) /\ Row(last.cid).groups = {"g1", "g2"}

\* The candidates of a text, told from its positions: a token is a maximal
\* run of characters that are neither whitespace nor a comma; what is kept of
\* it runs from its first to its last character that is not punctuation
\* (hyphen and at-sign are not); it is a candidate when the kept part starts
\* with an at-sign, and the username is the kept part without its at-signs.
Separators == Whitespace \cup {","}

IsToken(text, i, j) ==
  /\ i <= j
  /\ \A k \in i..j : text[k] \notin Separators
  /\ i = 1 \/ text[i - 1] \in Separators
  /\ j = Len(text) \/ text[j + 1] \in Separators

Kept(text, i, j) == {k \in i..j : text[k] \notin StringPunctuation \ {"-", "@"}}

Min(S) == CHOOSE x \in S : \A y \in S : x <= y

Candidates(text) ==
  {SelectSeq(SubSeq(text, Min(Kept(text, ij[1], ij[2])), Max(Kept(text, ij[1], ij[2]))),
             LAMBDA ch : ch # "@") :
     ij \in {p \in (1..Len(text)) \X (1..Len(text)) :
               /\ IsToken(text, p[1], p[2])
               /\ Kept(text, p[1], p[2]) # {}
               /\ text[Min(Kept(text, p[1], p[2]))] = "@"}}

(* C13.  users_mentioned(text) returns exactly the existing users whose     *)
(* username is a candidate of the text, each of them once: a candidate     *)
(* that is no username is dropped, a user mentioned several times appears  *)
(* once, a username with a hyphen is found, and a second call on the same  *)
(* text returns the same users.                                            *)
C13_ExtractMentions ==
  call.fn = "users_mentioned" /\ call.pc # "ready" =>
    /\ Range(call.users) = {u \in Users : Username[u] \in Candidates(call.text)}
    /\ \A i, j \in 1..Len(call.users) : call.users[i] = call.users[j] => i = j
    /\ call.pc = "called again" => call.users = call.previous

\* "@a,@a": the user that is mentioned twice is returned once, by both calls
C13_Witness ==
  /\ call.fn = "users_mentioned" /\ call.pc = "called again"
  /\ call.text = <<"@", "a", ",", "@", "a">>
  /\ call.users = <<"u1">>

(* C14.  Attachment round trip: for every byte sequence, the empty one     *)
(* included, the attachment that a create stores from the base64 text of   *)
(* the bytes, with or without a data-URL header that ends in "base64,", is *)
(* written by the download of the attachment as exactly those bytes.       *)
C14_AttachmentRoundTrip ==
  call.fn = "roundtrip" /\ call.pc = "called" =>
    ~call.error /\ call.decoded = call.bytes

\* two bytes (a padded group) sent behind a data-URL header have come back
C14_Witness ==
  /\ call.fn = "roundtrip" /\ call.pc = "called"
  /\ call.header /\ call.bytes = <<104, 255>>
  /\ call.decoded = <<104, 255>>

\* the requests that the workers are handling, and the one answered last
Requests == {req[w] : w \in Workers} \cup {last}

(* C15.  Push only after commit: a request has pushed, to a user or to all, *)
(* only if its transaction has committed, so that a request that failed    *)
(* its validation or its commit has pushed nothing; and every push to a    *)
(* user comes after a notification for that user that the same request     *)
(* has committed.                                                          *)
C15_PushAfterCommit ==
  \A r \in Requests :
    /\ r.pushed # <<>> \/ r.broadcast # <<>> => r.committed
    /\ r.pc = "done" /\ r.result \notin {"ok", "InternalError"}
         => ~r.committed /\ r.pushed = <<>> /\ r.broadcast = <<>>
    /\ r.committed /\ r.op = "post" => \E c \in created : c.id = r.cid
    /\ \A i \in 1..Len(r.pushed) :
         /\ r.op = "post"
         /\ \E k \in 1..Len(notifications) :
              notifications[k].user = r.pushed[i] /\ notifications[k].cid = r.cid

\* a create has committed and pushed to the first of the two users it mentions
C15_Witness ==
  \E w \in Workers :
    /\ req[w].op = "post" /\ req[w].pc = "push_users"
    /\ req[w].committed /\ req[w].pushed = <<"u1">>
    /\ Len(notifications) = 2

\* the notifications that were written for comment id
NotificationsOf(id) == SelectSeq(notifications, LAMBDA n : n.cid = id)

\* What any request can see in a store with the comments cs and the
\* notifications ns, after the creations cr: every comment that was created
\* has its notifications, one for each user that its text mentioned, and
\* every comment and every notification comes from a creation.
Complete(cs, ns, cr) ==
  /\ \A c \in cr :
       LET mine == {k \in 1..Len(ns) : ns[k].cid = c.id}
       IN  /\ Cardinality(mine) = Cardinality(Mentioned(c.text))
           /\ {ns[k].user : k \in mine} = Mentioned(c.text)
  /\ \A k \in 1..Len(ns) : \E c \in cr : c.id = ns[k].cid
  /\ \A c \in cs : \E k \in cr : k.id = c.id

(* C16.  A comment and its notifications are committed as one.  The store  *)
(* starts empty, and every step that changes it leaves it complete: each   *)
(* created comment has a notification for each user its text mentions and  *)
(* no notification is without the creation of its comment; so no request,  *)
(* whatever else is in flight, sees the one without the other.  A step     *)
(* that adds a comment or a notification is the commit of a create and     *)
(* adds the comment with all its notifications; and a commit that fails    *)
(* leaves the store as it was.                                             *)
C16_CommentNotificationAtomicity ==
  [][/\ ~StoreUnchanged \/ created' # created
          => Complete(comments', notifications', created')
     /\ (\E c \in comments' : ~Exists(c.id)) \/ notifications' # notifications
          => \E w \in Workers :
               /\ req[w].op = "post" /\ req[w].pc = "commit"
               /\ comments' = comments \cup {[Val(req[w].c) EXCEPT !.id = nextId]}
               /\ Len(notifications') =
                    Len(notifications) + Cardinality(Mentioned(Val(req[w].c).text))
               /\ SubSeq(notifications', 1, Len(notifications)) = notifications
               /\ \A k \in (Len(notifications) + 1)..Len(notifications') :
                    notifications'[k].cid = nextId
     /\ \A w \in Workers :
          req[w].pc = "commit" /\ req'[w].pc = "idle" /\ last'.result = "StoreError"
            => StoreUnchanged /\ ~last'.committed]_vars

\* a create that mentions two users has committed and is pushing, the store has
\* its comment and its two notifications, and another request is in flight
C16_Witness ==
  \E w, v \in Workers :
    /\ req[w].op = "post" /\ req[w].pc = "push_users" /\ req[w].committed
    /\ req[v].pc = "commit"
    /\ Exists(req[w].cid) /\ Len(NotificationsOf(req[w].cid)) = 2

\* the update d of a comment would leave it with a name and no bytes, or with
\* bytes and no name
LeavesInconsistent(row, d) ==
  LET name == IF d.attachment_name = None
                THEN row.attachment_name ELSE Val(d.attachment_name)
      has_bytes == d.attachment_bytes # None \/ row.attachment_bytes # None
  IN  (name # None) # has_bytes

ValidationErrors == {"InvalidParameters", "AttachmentConsistencyError", "AccessDenied"}

(* C17.  No partial write on a failed update: an update of a comment of    *)
(* its sender that is ill typed, or would leave the attachment with only   *)
(* one of name and bytes, or names a group the sender cannot access, ends  *)
(* with the error of its validation; and an update that ends with such an  *)
(* error has committed nothing and pushed nothing, so that the comment is  *)
(* in the store as it was before, in every field, whatever valid fields    *)
(* the request carried.                                                    *)
C17_NoPartialWrites ==
  [][Arrives /\ Arrived.op = "put"
       => /\ ( /\ Exists(Arrived.cid)
               /\ comment_is_accessible_by(Row(Arrived.cid), Arrived.user, "update")
               /\ \/ ~Val(Arrived.data).well_typed
                  \/ LeavesInconsistent(Row(Arrived.cid), Val(Arrived.data))
                  \/ DeniedGroups(Arrived) )
               => Arrived.pc = "done" /\ Arrived.result \in ValidationErrors
          /\ Arrived.pc = "done" /\ Arrived.result \in ValidationErrors
               => /\ ~Arrived.committed
                  /\ Arrived.pushed = <<>> /\ Arrived.broadcast = <<>>
                  /\ StoreUnchanged
                  /\ \E c \in comments' : c.id = Arrived.cid /\ c = Row(Arrived.cid)]_vars

\* an update with a new text and a group that its sender cannot access was
\* denied, and the comment has the text it had
C17_Witness ==
  /\ Finished("put") /\ last.result = "AccessDenied"
  /\ Val(last.data).text = Some(TextEdited)
  /\ Exists(last.cid) /\ Row(last.cid).text = TextMentions

(* C18.  A failed push is invisible to the caller: whether or not an event *)
(* is delivered, a push changes nothing in the store, the push to one      *)
(* mentioned user is followed by the push to the next and then by the      *)
(* broadcast, and the broadcast is followed by the response of success,    *)
(* with one push made per mentioned user and one broadcast.  (The response *)
(* is another one only when the comment of a create or an update was       *)
(* deleted by another request before the broadcast.)                       *)
C18_PushFailureInvisible ==
  [][\A w \in Workers :
       req[w].pc \in {"push_users", "push_all"} /\ req'[w] # req[w]
         => /\ StoreUnchanged
            /\ req[w].pc = "push_users"
                 => /\ req'[w].pc \in {"push_users", "push_all"}
                    /\ req'[w].committed
                    /\ Len(req'[w].pushed) = Len(req[w].pushed) + 1
                    /\ req'[w].pc = "push_all" <=> req'[w].pushed = req[w].mentioned
            /\ req[w].pc = "push_all" /\ (req[w].op = "delete" \/ Exists(req[w].cid))
                 => /\ last'.pc = "done" /\ last'.result = "ok" /\ last'.committed
                    /\ last'.pushed = req[w].mentioned
                    /\ Len(last'.broadcast) = 1]_vars

\* a create that mentions two users has succeeded although the event of the
\* first user and the broadcast were lost; its comment and its two
\* notifications are in the store
C18_Witness ==
  /\ Finished("post") /\ last.result = "ok"
  /\ last.undelivered = {"u1", "all"}
  /\ last.pushed = <<"u1", "u2">>
  /\ Exists(last.cid) /\ Len(notifications) = 2

C20_OnlyCreateNotifies ==
  [][/\ notifications' # notifications
          => \E w \in Workers :
               req[w].op = "post" /\ req[w].pc = "commit" /\ req'[w].committed
     /\ \A w \in Workers :
          req[w].op \in {"put", "delete"} /\ req'[w] # req[w]
            => notifications' = notifications
     /\ Arrives /\ Arrived.op \in {"put", "delete"}
          => notifications' = notifications
     /\ \A r \in {req'[w] : w \in Workers} \cup {last'} :
          r.op \in {"put", "delete"}
            => r.pushed = <<>> /\ r.undelivered \subseteq {"all"}]_vars

\* an update has given a comment that mentioned no one a text that mentions
\* u1, and no notification is stored
C20_Witness ==
  /\ Finished("put") /\ last.result = "ok"
  /\ Exists(last.cid) /\ Row(last.cid).text = TextEdited
  /\ Mentioned(TextEdited) = {"u1"}
  /\ notifications = <<>>

====
